---- MODULE Spec2Model ----
(***************************************************************************)
(* Orbo: global state slices shared by React components through one        *)
(* GlobalStateProvider registry, with the two-phase hydration handshake    *)
(* that delays onSubscribe until the server-rendered tree is hydrated.     *)
(*                                                                         *)
(* Modelled source: src/unnamed/part_006, lines 462-860 (the release that  *)
(* gates onSubscribe on the registry's _isHydrated flag).  The fields      *)
(* _value, _initialized, _listeners, _cleanup, _isHydrated, _subContexts   *)
(* and _initialValues appear here without the leading underscore.          *)
(*                                                                         *)
(* React is the environment: a component renders, then its mount effect    *)
(* runs, then it unmounts and its effect cleanup runs; a render may be     *)
(* discarded before it commits; the provider's effect runs after the       *)
(* effects of the children committed with it.                              *)
(***************************************************************************)
EXTENDS Integers, FiniteSets, Sequences, TLC

\* ------------------------------------------------------------------ bounds
\* Component instances that may be mounted under one provider.
NumComponents == 2
\* Entries created per slice and registry (evicted entries are re-created).
MaxEntries == 2
\* The per-epoch count of onSubscribe invocations saturates here.
SatCalls == 2
\* Memoized functions obtained from globalStateMemo.
MaxMemoized == 2
\* Invocations of one factory on one input object.
MaxFactoryRuns == 2

Components == 1..NumComponents
\* The values a slice may hold.
Values == {0, 1}
Slices == {"A", "B"}
\* Each mounted GlobalStateProvider owns one registry.
Providers == {"P1", "P2"}
\* renderToPipeableStream, hydrateRoot, createRoot.
Modes == {"server", "hydrate", "client"}
\* The initialValues objects a provider may be given.
InitialValuesSet == {0, 1}
\* The value of the client-only source (localStorage and the like).
ExternalVal == Cardinality(Values) - 1

Min(a, b) == IF a < b THEN a ELSE b

\* ----------------------------------------------------------- configuration
\* GlobalStateConfig: persistState is true, false or left unset; onSubscribe
\* is absent ("none"), returns a cleanup function ("cleanup"), calls
\* setState(ExternalVal) synchronously and returns a cleanup function ("set"),
\* throws ("throws"), or, unless it is already running, calls the callback of
\* the slice's setter hook with ExternalVal where a committed component holds
\* one, and returns a cleanup function ("reenters").
\* initialState returns a value ("returns"), throws on every call ("throws"),
\* or throws while told that hydration has not completed ("throwsUnhydrated").
PersistOptions == {"true", "false", "unset"}
OnSubscribeOptions == {"none", "cleanup", "set", "throws", "reenters"}
\* The onSubscribe callbacks that return and touch the slice through the
\* setState they are given only.
PlainOnSubscribe == {"none", "cleanup", "set"}
InitialStateOptions == {"returns", "throws", "throwsUnhydrated"}
GlobalStateConfig ==
  [persistState : PersistOptions, onSubscribe : OnSubscribeOptions,
   initialState : InitialStateOptions]

\* The configurations explored for each slice.
ConfigsOf(s) ==
  IF s = "A" THEN GlobalStateConfig
  ELSE {[persistState |-> "unset", onSubscribe |-> "set",
         initialState |-> "returns"]}

\* config.initialState(initialValues, isHydrated).  Slice A's gives the
\* server-safe default taken from initialValues, or the client-only value
\* once hydrated; slice B's ignores isHydrated.
initialState(s, iv, isHydrated) ==
  IF s = "A" /\ isHydrated THEN ExternalVal ELSE iv

\* The argument of a setter: a plain value x, or the function prev => prev + 1
\* (modulo the value range).
SetterArgs == [fn : {FALSE}, x : Values] \cup [fn : {TRUE}, x : {0}]
\* No setter call was traced in the step.
NoCall == [slice |-> "none", arg |-> [fn |-> FALSE, x |-> 0]]

\* ---------------------------------------------------------------- records
\* A SubContext.  id 0 stands for "no entry in the map"; id n is the n-th
\* entry created for the slice in its registry.  calls is history: the
\* onSubscribe invocations since the listener count last returned to zero.
NoEntry ==
  [id |-> 0, value |-> 0, initialized |-> FALSE, cleanup |-> "null",
   listeners |-> {}, calls |-> 0]

\* A component instance.  state is the useState value of a reader; readId
\* is the entry its state was read from; sub is the entry its listener is
\* registered on (0: none).
IdleComp ==
  [phase |-> "idle", slice |-> "A", kind |-> "get", state |-> 0,
   readId |-> 0, sub |-> 0]

VARIABLES
  config,       \* [Slices -> GlobalStateConfig], fixed by createGlobalState
  hooks,        \* the slices the application called createGlobalState for
  contextData,  \* [Providers -> GlobalStateContextData]
  created,      \* [Providers -> [Slices -> number of entries created]]
  invoked,      \* [Providers -> [Slices -> number of initialState invocations]]
  comp,         \* [Providers -> [Components -> component instance]]
  react,        \* [Providers -> the provider component's React-side state:
                \*  root API, position, deferred isHydrated value, components
                \*  waiting for hydration, initialValues prop of the last render]
  setterHeld,   \* [Providers -> slices whose setter a committed component holds]
  ev,           \* what the last step did (history)
  lastCall,     \* the updateState call of the last step, where traced (history)
  memo          \* globalStateMemoCache and the memoized functions handed out

vars ==
  <<config, hooks, contextData, created, invoked, comp, react, setterHeld, ev,
    lastCall, memo>>

\* Whether the call config.initialState(iv, isHydrated) of slice s throws
\* instead of returning.
initialStateThrows(s, iv, isHydrated) ==
  \/ config[s].initialState = "throws"
  \/ config[s].initialState = "throwsUnhydrated" /\ ~isHydrated

\* The working state of one step under one provider: the registry, the
\* components' React state, and the callbacks invoked so far in the step
\* (fired: the onSubscribe invocations, each with its slice, whether the
\* entry had already received a cleanup from an earlier invocation, and the
\* value passed as currentState, and whether another onSubscribe invocation
\* was running;
\* cleaned: the slices whose cleanup function was invoked; error: an
\* exception is propagating to the caller; busy: an onSubscribe invocation
\* is running; held: the slices whose setter callback the application holds;
\* accessed: the slices initializeSubContext was called for).
World(p) ==
  [cd |-> contextData[p], comp |-> comp[p], created |-> created[p],
   invoked |-> invoked[p], fired |-> <<>>, cleaned |-> <<>>, error |-> FALSE,
   busy |-> FALSE, held |-> setterHeld[p], accessed |-> {}]

\* ------------------------------------------------------------ _updateState
\* A functional update applied to the value the entry was created with
\* instead of its current value.
ApplyArg_IgnoresCurrent(arg, prev) ==
  IF arg.fn THEN 1 % Cardinality(Values) ELSE arg.x

\* typeof newState === "function" ? newState(subContext._value) : newState
ApplyArg(arg, prev) ==
  IF arg.fn THEN (prev + 1) % Cardinality(Values) ELSE arg.x

\* One listener set for the whole registry: every mounted reader is notified.
Notify_AllReaders(comps, listeners, v) ==
  [c \in Components |->
     IF comps[c].phase = "mounted" /\ comps[c].kind = "get"
       THEN [comps[c] EXCEPT !.state = v]
       ELSE comps[c]]

\* A fan-out that stops after the first listener.
Notify_FirstOnly(comps, listeners, v) ==
  [c \in Components |->
     IF c \in listeners /\ comps[c].kind = "get"
          /\ \A d \in listeners : c <= d
       THEN [comps[c] EXCEPT !.state = v]
       ELSE comps[c]]

\* listeners.forEach((setter) => setter(subContext._value)): a reader's
\* setter is its useState setter, a setter-only component's is a no-op.
Notify(comps, listeners, v) ==
  [c \in Components |->
     IF c \in listeners /\ comps[c].kind = "get"
       THEN [comps[c] EXCEPT !.state = v]
       ELSE comps[c]]

\* The value stored only while someone listens.
updateState_OnlyWithListeners(W, s, arg) ==
  LET e == W.cd.subContexts[s]
      v == ApplyArg(arg, e.value)
  IN  IF e.listeners = {} THEN W
      ELSE [W EXCEPT !.cd.subContexts[s].value = v,
                     !.comp = Notify(W.comp, e.listeners, v)]

\* subContext._value = ...; listeners.forEach(...)
updateState(W, s, arg) ==
  LET e == W.cd.subContexts[s]
      v == ApplyArg(arg, e.value)
  IN  [W EXCEPT !.cd.subContexts[s].value = v,
                !.comp = Notify(W.comp, e.listeners, v)]

\* ------------------------------------------------------ _triggerOnSubscribe
RECURSIVE initializeSubContext(_, _)

\* The callback returned by the setter hook:
\* initializeSubContext(globalStateContext)._updateState(newState)
setterCallback(W, s, arg) ==
  LET W1 == initializeSubContext(W, s)
  IN  IF W1.error THEN W1 ELSE updateState(W1, s, arg)

\* What the body of config.onSubscribe does with the entry before it returns
\* or throws.  W0 is the working state at the call.
onSubscribeBody(W0, s) ==
  LET k == config[s].onSubscribe
      x == [fn |-> FALSE, x |-> ExternalVal]
  IN  CASE k = "set" -> updateState(W0, s, x)
        [] k = "throws" -> [W0 EXCEPT !.error = TRUE]
        [] k = "reenters" /\ ~W0.busy /\ s \in W0.held ->
             [setterCallback([W0 EXCEPT !.busy = TRUE], s, x)
                EXCEPT !.busy = FALSE]
        [] OTHER -> W0

\* onSubscribe handed the result of a fresh initialState call instead of the
\* entry's value.
onSubscribe_PassesInitialState(W, s) ==
  LET k == config[s].onSubscribe
      call == [slice |-> s, again |-> W.cd.subContexts[s].cleanup = "fn",
               value |-> initialState(s, W.cd.initialValues, W.cd.isHydrated),
               nested |-> W.busy]
      W0 == [W EXCEPT !.cd.subContexts[s].calls =
                         IF k = "none" THEN @ ELSE Min(@ + 1, SatCalls),
                      !.fired = IF k = "none" THEN @ ELSE Append(@, call)]
      W1 == onSubscribeBody(W0, s)
      ret == IF k = "none" THEN "undefined" ELSE "fn"
  IN  IF W1.error THEN W1 ELSE [W1 EXCEPT !.cd.subContexts[s].cleanup = ret]

\* subContext._cleanup = onSubscribe?.(subContext._updateState,
\* subContext._value): the call is recorded with the value it was handed as
\* its second argument; its return value is stored unless it throws.
onSubscribe(W, s) ==
  LET k == config[s].onSubscribe
      call == [slice |-> s, again |-> W.cd.subContexts[s].cleanup = "fn",
               value |-> W.cd.subContexts[s].value,
               nested |-> W.busy]
      W0 == [W EXCEPT !.cd.subContexts[s].calls =
                         IF k = "none" THEN @ ELSE Min(@ + 1, SatCalls),
                      !.fired = IF k = "none" THEN @ ELSE Append(@, call)]
      W1 == onSubscribeBody(W0, s)
      ret == IF k = "none" THEN "undefined" ELSE "fn"
  IN  IF W1.error THEN W1 ELSE [W1 EXCEPT !.cd.subContexts[s].cleanup = ret]

\* The guard without its _initialized test: every access of a hydrated
\* registry invokes onSubscribe.
ShouldTrigger_IgnoresInitialized(isHydrated, initialized) ==
  isHydrated

\* The guard without its _isHydrated test: the first access invokes
\* onSubscribe, on the server too.
ShouldTrigger_IgnoresHydrated(isHydrated, initialized) ==
  ~initialized

\* if (globalStateContext._isHydrated && !subContext._initialized)
ShouldTrigger(isHydrated, initialized) ==
  isHydrated /\ ~initialized

\* _initialized = true placed after the if statement instead of inside it.
triggerOnSubscribe_MarksAlways(W, s) ==
  IF ShouldTrigger(W.cd.isHydrated, W.cd.subContexts[s].initialized)
    THEN LET W1 == onSubscribe(W, s)
         IN  IF W1.error THEN W1
             ELSE [W1 EXCEPT !.cd.subContexts[s].initialized = TRUE]
    ELSE [W EXCEPT !.cd.subContexts[s].initialized = TRUE]

\* _initialized is set once onSubscribe has returned.
triggerOnSubscribe(W, s) ==
  IF ShouldTrigger(W.cd.isHydrated, W.cd.subContexts[s].initialized)
    THEN LET W1 == onSubscribe(W, s)
         IN  IF W1.error THEN W1
             ELSE [W1 EXCEPT !.cd.subContexts[s].initialized = TRUE]
    ELSE W

\* ---------------------------------------------------- initializeSubContext
\* globalStateContext._subContexts.get(config): the lookup every access
\* starts with, recorded in the working state.
mapGet(W, s) == [W EXCEPT !.accessed = @ \cup {s}]

\* globalStateContext._subContexts.set(config, subContext) for a key the Map
\* does not hold: the key goes to the end of the Map's iteration order, its
\* insertion order, which the registry keeps in its order field.
mapSet(W, s, e) ==
  [W EXCEPT !.cd.subContexts[s] = e, !.cd.order = Append(@, s)]

\* initialState always told that hydration has not completed.
NewSubContext_NeverHydrated(W, s) ==
  [id |-> W.created[s] + 1,
   value |-> initialState(s, W.cd.initialValues, FALSE),
   initialized |-> FALSE, cleanup |-> "null", listeners |-> {}, calls |-> 0]

\* The object literal of a cache miss: _initialized false, _value the result
\* of config.initialState(_initialValues, _isHydrated), _cleanup null.
NewSubContext(W, s) ==
  [id |-> W.created[s] + 1,
   value |-> initialState(s, W.cd.initialValues, W.cd.isHydrated),
   initialized |-> FALSE, cleanup |-> "null", listeners |-> {}, calls |-> 0]

\* An entry can be constructed while the slice's count of constructions
\* (each invokes initialState once) is in bounds.
CanAccess(p, s) ==
  contextData[p].subContexts[s].id # 0 \/ invoked[p][s] < MaxEntries

\* The access that leaves onSubscribe to the provider's effect.
initializeSubContext_NoTrigger(Wc, s) ==
  LET W == mapGet(Wc, s)
  IN
  IF W.cd.subContexts[s].id # 0
    THEN W
    ELSE [mapSet(W, s, NewSubContext(W, s)) EXCEPT
                   !.created[s] = @ + 1,
                   !.invoked[s] = @ + 1]

\* The candidate entry built, and initialState invoked, before the map is
\* looked up.
initializeSubContext_EagerInitialState(Wc, s) ==
  LET W == mapGet(Wc, s)
  IN
  LET W0 == [W EXCEPT !.invoked[s] = @ + 1]
      W1 == IF W0.cd.subContexts[s].id # 0
              THEN W0
              ELSE [mapSet(W0, s, NewSubContext(W0, s)) EXCEPT
                              !.created[s] = @ + 1]
  IN  triggerOnSubscribe(W1, s)

\* The entry put in the map before its _value is computed: a throwing
\* initialState leaves it there.
initializeSubContext_SetsBeforeInitialState(Wc, s) ==
  LET W == mapGet(Wc, s)
  IN
  LET W1 == IF W.cd.subContexts[s].id # 0
              THEN W
              ELSE IF initialStateThrows(s, W.cd.initialValues, W.cd.isHydrated)
                THEN [mapSet(W, s, [NewSubContext(W, s) EXCEPT !.value = 0]) EXCEPT
                               !.created[s] = @ + 1,
                               !.invoked[s] = @ + 1,
                               !.error = TRUE]
                ELSE [mapSet(W, s, NewSubContext(W, s)) EXCEPT
                               !.created[s] = @ + 1,
                               !.invoked[s] = @ + 1]
  IN  IF W1.error THEN W1 ELSE triggerOnSubscribe(W1, s)

\* subContextFromCache || { ..., _value: config.initialState(...), ... },
\* then _subContexts.set(config, subContext) and _triggerOnSubscribe().  An
\* exception thrown by initialState leaves the object literal, and with it
\* the function, before either of the two.
initializeSubContext(Wc, s) ==
  LET W == mapGet(Wc, s)
  IN
  LET W1 == IF W.cd.subContexts[s].id # 0
              THEN W
              ELSE IF initialStateThrows(s, W.cd.initialValues, W.cd.isHydrated)
                THEN [W EXCEPT !.invoked[s] = @ + 1, !.error = TRUE]
                ELSE [mapSet(W, s, NewSubContext(W, s)) EXCEPT
                               !.created[s] = @ + 1,
                               !.invoked[s] = @ + 1]
  IN  IF W1.error THEN W1 ELSE triggerOnSubscribe(W1, s)

\* -------------------------------------------------------------- _subscribe
subscribe(W, s, c) ==
  [W EXCEPT !.cd.subContexts[s].listeners = @ \cup {c},
            !.comp[c].sub = W.cd.subContexts[s].id]

\* The test dropped: every unsubscribe is treated as the last one.
LastListener_Always(rest) == TRUE

\* if (!listeners.size)
LastListener(rest) == rest = {}

\* The cleanup skipped for an entry that is being evicted.
RunsCleanup_OnlyPersisted(s, e) ==
  e.cleanup = "fn" /\ config[s].persistState # "false"

\* subContext._cleanup?.()
RunsCleanup(s, e) == e.cleanup = "fn"

\* The entry evicted whatever persistState is.
AfterLastListener_EvictsAlways(s, e) == NoEntry

\* The entry kept whatever persistState is.
AfterLastListener_NeverEvicts(s, e) ==
  [e EXCEPT !.listeners = {}, !.initialized = FALSE, !.calls = 0]

\* The reset of _initialized forgotten.
AfterLastListener_KeepsInitialized(s, e) ==
  IF config[s].persistState = "false"
    THEN NoEntry
    ELSE [e EXCEPT !.listeners = {}, !.calls = 0]

\* The entry after its last listener left: _initialized = false, and
\* _subContexts.delete(config) when persistState === false.
AfterLastListener(s, e) ==
  IF config[s].persistState = "false"
    THEN NoEntry
    ELSE [e EXCEPT !.listeners = {}, !.initialized = FALSE, !.calls = 0]

\* _subContexts.delete(config): the key leaves the Map's iteration order.
Without(order, s) == SelectSeq(order, LAMBDA x : x # s)

\* The registry's flag reset when the last listener of a slice leaves.
unsubscribe_ResetsHydration(W, s, c) ==
  LET e == W.cd.subContexts[s]
      rest == e.listeners \ {c}
      after == AfterLastListener(s, [e EXCEPT !.listeners = rest])
  IN  IF LastListener(rest)
        THEN [W EXCEPT
                !.cd.subContexts[s] = after,
                !.cd.order = IF after.id = 0 THEN Without(@, s) ELSE @,
                !.cd.isHydrated = FALSE,
                !.cleaned = IF RunsCleanup(s, e) THEN Append(@, s) ELSE @]
        ELSE [W EXCEPT !.cd.subContexts[s].listeners = rest]

\* The closure returned by _subscribe, run by React when c unmounts.
unsubscribe(W, s, c) ==
  LET e == W.cd.subContexts[s]
      rest == e.listeners \ {c}
      after == AfterLastListener(s, [e EXCEPT !.listeners = rest])
  IN  IF LastListener(rest)
        THEN [W EXCEPT
                !.cd.subContexts[s] = after,
                !.cd.order = IF after.id = 0 THEN Without(@, s) ELSE @,
                !.cleaned = IF RunsCleanup(s, e) THEN Append(@, s) ELSE @]
        ELSE [W EXCEPT !.cd.subContexts[s].listeners = rest]

\* ------------------------------------------------- GlobalStateProvider
\* contextData._subContexts.forEach((subContext) =>
\*   subContext._triggerOnSubscribe())
\* A pass that stops after the first entry.
TriggerAll_FirstOnly(W, keys) ==
  IF keys = <<>> THEN W
  ELSE triggerOnSubscribe(W, Head(keys))

\* The entries are visited in the Map's iteration order; an exception
\* thrown by a callback ends the forEach.
RECURSIVE TriggerAll(_, _)
TriggerAll(W, keys) ==
  IF keys = <<>> \/ W.error THEN W
  ELSE TriggerAll(triggerOnSubscribe(W, Head(keys)), Tail(keys))

\* A provider that creates the entries of the slices itself when it mounts.
ProviderEffectBody_EagerEntries(W, isHydrated) ==
  LET W0 == initializeSubContext(W, "A")
  IN  IF isHydrated
        THEN TriggerAll([W0 EXCEPT !.cd.isHydrated = TRUE], W0.cd.order)
        ELSE W0

\* The effect that sets the flag and leaves the existing entries alone.
ProviderEffectBody_FlagOnly(W, isHydrated) ==
  IF isHydrated THEN [W EXCEPT !.cd.isHydrated = TRUE] ELSE W

\* The effect without its if (isHydrated) test.
ProviderEffectBody_Unguarded(W, isHydrated) ==
  TriggerAll([W EXCEPT !.cd.isHydrated = TRUE], W.cd.order)

\* The body of the provider's useEffect, run with the isHydrated value of
\* the render being committed.
ProviderEffectBody(W, isHydrated) ==
  IF isHydrated
    THEN TriggerAll([W EXCEPT !.cd.isHydrated = TRUE], W.cd.order)
    ELSE W

\* A registry whose _initialValues follows the prop of each render.
useRefCurrent_TracksProp(current, iv) ==
  [current EXCEPT !.initialValues = iv]

\* useRef({_initialValues: initialValues, ...}).current in a render after the
\* first: the object made by the first render, whatever the argument is now.
useRefCurrent(current, iv) == current

\* The client snapshot used while hydrating too (no server snapshot).
FirstIsHydrated_ClientSnapshot(mode) == mode # "server"

\* useDeferredValue(useSyncExternalStore(...)) in the provider's first
\* render: the server snapshot (false) on the server and while hydrating,
\* the client snapshot (true) under createRoot.
FirstIsHydrated(mode) == mode = "client"

\* ---------------------------------------------------------- globalStateMemo
\* The factory functions passed to globalStateMemo, and the initialValues
\* objects the memoized functions are called with: o1 and o2 are two objects
\* with equal contents, o3 has other contents.
Factories == {"f", "g"}
InputObjects == {"o1", "o2", "o3"}
Contents(o) == IF o = "o3" THEN 1 ELSE 0

\* What factory f computes from an object: a pure function of its contents.
FactoryValue(f, o) == IF f = "f" THEN Contents(o) ELSE Contents(o) + 10

\* A result object: the value computed, and its identity (the run-th
\* invocation of factory by on object obj).
NoResult == [val |-> 0, by |-> "none", obj |-> "none", run |-> 0]

\* The WeakMaps created so far are numbered from 1.  byFactory is
\* globalStateMemoCache (0: no entry for the factory); caches[i] is the i-th
\* WeakMap, from input object to result; fns are the closures handed out,
\* each with its factory and the WeakMap it captured.  History: runs counts
\* the invocations of each factory on each object, called[h] holds the
\* objects the h-th closure was called with, and last is the last operation
\* (fn: the closure; first: its first call with obj; ran: the factory was
\* invoked; result: what was returned).
NoMemoOp ==
  [op |-> "none", fn |-> 0, obj |-> "none", first |-> FALSE, ran |-> FALSE,
   result |-> NoResult]
EmptyMemo ==
  [byFactory |-> [f \in Factories |-> 0],
   caches |-> <<>>,
   fns |-> <<>>,
   runs |-> [f \in Factories |-> [o \in InputObjects |-> 0]],
   called |-> <<>>,
   last |-> NoMemoOp]

\* A new WeakMap for every call, never looked up again.
contextCachesOf_AlwaysNew(M, f) == 0

\* One WeakMap for all factories.
contextCachesOf_Shared(M, f) == IF Len(M.caches) > 0 THEN 1 ELSE 0

\* let contextCaches = globalStateMemoCache.get(factory)
contextCachesOf(M, f) == M.byFactory[f]

\* globalStateMemo(factory): the factory's WeakMap is looked up, created and
\* registered if missing, and captured by the closure that is returned.
globalStateMemo(M, f) ==
  LET found == contextCachesOf(M, f)
      M1 == IF found = 0
              THEN [M EXCEPT !.caches = Append(@, [o \in InputObjects |-> NoResult]),
                             !.byFactory[f] = Len(M.caches) + 1]
              ELSE M
      id == IF found = 0 THEN Len(M.caches) + 1 ELSE found
  IN  [M1 EXCEPT !.fns = Append(@, [factory |-> f, contextCaches |-> id]),
                 !.called = Append(@, {}),
                 !.last = [NoMemoOp EXCEPT !.op = "create", !.fn = Len(M.fns) + 1]]

\* A cache keyed by the contents of the object.
CacheKey_ByContents(o) == CHOOSE x \in InputObjects : Contents(x) = Contents(o)

\* The WeakMap key of an input object: the object itself.
CacheKey(o) == o

\* The closure: if (!contextCaches.has(initialValues))
\*   contextCaches.set(initialValues, factory(initialValues));
\* return contextCaches.get(initialValues)
memoized(M, h, o) ==
  LET f == M.fns[h].factory
      i == M.fns[h].contextCaches
      k == CacheKey(o)
      has == M.caches[i][k] # NoResult
      made == [val |-> FactoryValue(f, o), by |-> f, obj |-> o,
               run |-> M.runs[f][o] + 1]
      M1 == IF has THEN M
            ELSE [M EXCEPT !.caches[i][k] = made, !.runs[f][o] = @ + 1]
  IN  [M1 EXCEPT !.called[h] = @ \cup {o},
                 !.last = [op |-> "call", fn |-> h, obj |-> o,
                           first |-> o \notin M.called[h], ran |-> ~has,
                           result |-> M1.caches[i][k]]]

\* ------------------------------------------------------------------- Init
\* The ways a provider can start: its root API, and the number of
\* server-rendered components that wait for hydration.
Starts ==
  {st \in [mode : Modes, pending : 0..NumComponents] :
     st.mode # "hydrate" => st.pending = 0}

\* The state after createGlobalState was called for the slices in S and the
\* providers in PS were constructed: nothing is rendered yet.  A provider
\* outside PS is never mounted.
InitOf(S, PS) ==
  /\ hooks = S
  /\ config \in {f \in [Slices -> GlobalStateConfig] :
                   \A s \in Slices : f[s] \in ConfigsOf(s)}
  /\ \E iv \in [Providers -> InitialValuesSet] :
       /\ \A p \in Providers \ PS : iv[p] = 0
       /\ contextData =
            [p \in Providers |->
               [initialValues |-> iv[p],
                subContexts |-> [s \in Slices |-> NoEntry],
                order |-> <<>>,
                isHydrated |-> FALSE]]
  /\ created = [p \in Providers |-> [s \in Slices |-> 0]]
  /\ invoked = [p \in Providers |-> [s \in Slices |-> 0]]
  /\ comp = [p \in Providers |-> [c \in Components |-> IdleComp]]
  /\ \E st \in [Providers -> Starts] :
       /\ \A p \in Providers \ PS : st[p] = [mode |-> "server", pending |-> 0]
       /\ react = [p \in Providers |->
                     [mode |-> st[p].mode, pc |-> "render0",
                      isHydrated |-> FirstIsHydrated(st[p].mode),
                      pending |-> st[p].pending,
                      prop |-> contextData[p].initialValues]]
  /\ setterHeld = [p \in Providers |-> {}]
  /\ ev = [op |-> "init", p |-> "P1", fired |-> <<>>, cleaned |-> <<>>,
           error |-> FALSE, accessed |-> {}]
  /\ lastCall = NoCall
  /\ memo = EmptyMemo

InitWith(S) == InitOf(S, {"P1"})

\* One slice whose initialState returns, and whose onSubscribe is a plain one.
Init ==
  /\ InitWith({"A"})
  /\ config["A"].initialState = "returns"
  /\ config["A"].onSubscribe \in PlainOnSubscribe

\* One registry object shared by every provider (a module-level singleton).
Commit_SharedRegistry(p, W, op) ==
  /\ contextData' = [q \in Providers |-> W.cd]
  /\ comp' = [comp EXCEPT ![p] = W.comp]
  /\ created' = [created EXCEPT ![p] = W.created]
  /\ invoked' = [invoked EXCEPT ![p] = W.invoked]
  /\ ev' = [op |-> op, p |-> p, fired |-> W.fired, cleaned |-> W.cleaned,
            error |-> W.error, accessed |-> W.accessed]

\* Writes a step's working state back to the registry of provider p, the
\* object its useRef holds.
Commit(p, W, op) ==
  /\ contextData' = [contextData EXCEPT ![p] = W.cd]
  /\ comp' = [comp EXCEPT ![p] = W.comp]
  /\ created' = [created EXCEPT ![p] = W.created]
  /\ invoked' = [invoked EXCEPT ![p] = W.invoked]
  /\ ev' = [op |-> op, p |-> p, fired |-> W.fired, cleaned |-> W.cleaned,
            error |-> W.error, accessed |-> W.accessed]

\* ---------------------------------------------------------------- actions
\* A getter hook that computes its initial state before the access triggers
\* onSubscribe.
Render_ReadsBeforeTrigger(p, c, s, k, hyd) ==
  /\ comp[p][c].phase = "idle"
  /\ s \in hooks
  /\ IF hyd
       THEN react[p].mode = "hydrate" /\ react[p].pending > 0
       ELSE react[p].mode = "hydrate" => react[p].pc # "render0"
  /\ react' = [react EXCEPT ![p].pending = IF hyd THEN @ - 1 ELSE @]
  /\ IF k = "get"
       THEN /\ CanAccess(p, s)
            /\ LET W == initializeSubContext(World(p), s)
                   e == W.cd.subContexts[s]
                   old == IF contextData[p].subContexts[s].id # 0
                            THEN contextData[p].subContexts[s].value
                            ELSE NewSubContext(World(p), s).value
                   W2 == [W EXCEPT !.comp[c] =
                            [phase |-> "rendered", slice |-> s, kind |-> k,
                             state |-> old, readId |-> e.id, sub |-> 0]]
               IN  Commit(p, W2, "render")
            /\ UNCHANGED setterHeld
       ELSE /\ LET W == World(p)
                   W2 == [W EXCEPT !.comp[c] =
                            [phase |-> "rendered", slice |-> s, kind |-> k,
                             state |-> 0, readId |-> 0, sub |-> 0]]
               IN  Commit(p, W2, "render")
            /\ UNCHANGED setterHeld
  /\ UNCHANGED <<config, hooks, memo>>
  /\ lastCall' = NoCall

\* A component's first render.  hyd: it hydrates a server-rendered
\* component; otherwise it is mounted fresh on the client (or rendered on
\* the server).  The getter hook's useState initializer reads
\* initializeSubContext(ctx)._value; the setter hook's render only builds
\* the setter callback.  An exception thrown by the initializer fails the
\* render: the component is not rendered.
Render(p, c, s, k, hyd) ==
  /\ comp[p][c].phase = "idle"
  /\ s \in hooks
  /\ IF hyd
       THEN react[p].mode = "hydrate" /\ react[p].pending > 0
       ELSE react[p].mode = "hydrate" => react[p].pc # "render0"
  /\ react' = [react EXCEPT ![p].pending = IF hyd THEN @ - 1 ELSE @]
  /\ IF k = "get"
       THEN /\ CanAccess(p, s)
            /\ LET W == initializeSubContext(World(p), s)
                   e == W.cd.subContexts[s]
                   W2 == IF W.error THEN W
                         ELSE [W EXCEPT !.comp[c] =
                                 [phase |-> "rendered", slice |-> s, kind |-> k,
                                  state |-> e.value, readId |-> e.id, sub |-> 0]]
               IN  Commit(p, W2, "render")
            /\ UNCHANGED setterHeld
       ELSE /\ LET W == World(p)
                   W2 == [W EXCEPT !.comp[c] =
                            [phase |-> "rendered", slice |-> s, kind |-> k,
                             state |-> 0, readId |-> 0, sub |-> 0]]
               IN  Commit(p, W2, "render")
            /\ UNCHANGED setterHeld
  /\ UNCHANGED <<config, hooks, memo>>
  /\ lastCall' = NoCall

\* The hook's mount effect:
\* useEffect(() => initializeSubContext(ctx)._subscribe(setter), [])
\* An exception thrown in it makes React unmount the component, which never
\* subscribed.
Effect(p, c) ==
  /\ comp[p][c].phase = "rendered"
  /\ react[p].mode # "server"
  /\ CanAccess(p, comp[p][c].slice)
  /\ LET s == comp[p][c].slice
         W == initializeSubContext(World(p), s)
         W2 == IF W.error
                 THEN [W EXCEPT !.comp[c] = IdleComp]
                 ELSE [subscribe(W, s, c) EXCEPT !.comp[c].phase = "mounted"]
     IN  /\ Commit(p, W2, "effect")
         /\ setterHeld' = [setterHeld EXCEPT ![p] =
                             IF comp[p][c].kind = "set" /\ ~W.error
                               THEN @ \cup {s} ELSE @]
  /\ UNCHANGED <<config, hooks, memo, react>>
  /\ lastCall' = NoCall

\* A render React discards before committing it: no effect ever runs.
Abandon(p, c) ==
  /\ comp[p][c].phase = "rendered"
  /\ react[p].pc = "done"
  /\ LET W == [World(p) EXCEPT !.comp[c] = IdleComp]
     IN  Commit(p, W, "abandon")
  /\ UNCHANGED <<config, hooks, memo, react, setterHeld>>
  /\ lastCall' = NoCall

\* The component unmounts: React runs the closure _subscribe returned.
Unmount(p, c) ==
  /\ comp[p][c].phase = "mounted"
  /\ LET s == comp[p][c].slice
         W == unsubscribe(World(p), s, c)
         W2 == [W EXCEPT !.comp[c] = IdleComp]
     IN  Commit(p, W2, "unmount")
  /\ UNCHANGED <<config, hooks, memo, react, setterHeld>>
  /\ lastCall' = NoCall

\* The callback returned by the setter hook, called by an effect, an event
\* handler or a timer of a component that has committed (it stays callable
\* after that component unmounts):
\* initializeSubContext(ctx)._updateState(newState)
SetterCallStep(p, s, arg) ==
  /\ s \in setterHeld[p]
  /\ react[p].mode # "server"
  /\ CanAccess(p, s)
  /\ LET W == setterCallback(World(p), s, arg)
     IN  Commit(p, W, "set")
  /\ UNCHANGED <<config, hooks, memo, react, setterHeld>>

SetterCall(p, s, arg) ==
  SetterCallStep(p, s, arg) /\ lastCall' = NoCall

\* The same call, with its slice and argument kept in the history.
TracedSetterCall(p, s, arg) ==
  SetterCallStep(p, s, arg) /\ lastCall' = [slice |-> s, arg |-> arg]

\* The external source onSubscribe attached to pushes a value through the
\* setState it was given (the entry's _updateState), while attached.
ExternalUpdateStep(p, s, arg) ==
  /\ contextData[p].subContexts[s].initialized
  /\ config[s].onSubscribe # "none"
  /\ LET W == updateState(World(p), s, arg)
     IN  Commit(p, W, "external")
  /\ UNCHANGED <<config, hooks, memo, react, setterHeld>>

ExternalUpdate(p, s, arg) ==
  ExternalUpdateStep(p, s, arg) /\ lastCall' = NoCall

\* The same update, with its slice and argument kept in the history.
TracedExternalUpdate(p, s, arg) ==
  ExternalUpdateStep(p, s, arg) /\ lastCall' = [slice |-> s, arg |-> arg]

\* The provider's useEffect(..., [isHydrated]) of a commit.  React runs it
\* after the effects of every child committed with it.  An exception that
\* leaves the effect makes React unmount the provider's tree ("failed").
ProviderEffect(p) ==
  /\ react[p].mode # "server"
  /\ react[p].pc \in {"render0", "deferred"}
  /\ \A c \in Components : comp[p][c].phase # "rendered"
  /\ LET W == ProviderEffectBody(World(p), react[p].isHydrated)
     IN  Commit(p, W, "providerEffect")
  /\ react' = [react EXCEPT ![p].pc =
                 IF ProviderEffectBody(World(p), react[p].isHydrated).error
                   THEN "failed"
                   ELSE IF react[p].isHydrated THEN "done" ELSE "committed"]
  /\ UNCHANGED <<config, hooks, memo, setterHeld>>
  /\ lastCall' = NoCall

\* The deferred re-render in which useDeferredValue yields true.  It changes
\* the HydrationStateContext value, so React completes it only once every
\* dehydrated Suspense boundary below the provider has hydrated.
DeferredRender(p) ==
  /\ react[p].pc = "committed"
  /\ react[p].pending = 0
  /\ react' = [react EXCEPT ![p].pc = "deferred", ![p].isHydrated = TRUE]
  /\ ev' = [op |-> "deferredRender", p |-> p, fired |-> <<>>, cleaned |-> <<>>,
            error |-> FALSE, accessed |-> {}]
  /\ UNCHANGED <<config, hooks, memo, contextData, created, invoked, comp, setterHeld>>
  /\ lastCall' = NoCall

\* The parent renders the provider again, with iv as its initialValues prop.
\* isHydrated keeps its value, so the effect does not run again.
ProviderRerender(p, iv) ==
  /\ react[p].mode # "server"
  /\ react[p].pc # "render0"
  /\ iv # react[p].prop
  /\ react' = [react EXCEPT ![p].prop = iv]
  /\ contextData' = [contextData EXCEPT ![p] = useRefCurrent(@, iv)]
  /\ ev' = [op |-> "providerRerender", p |-> p, fired |-> <<>>, cleaned |-> <<>>,
            error |-> FALSE, accessed |-> {}]
  /\ UNCHANGED <<config, hooks, memo, created, invoked, comp, setterHeld>>
  /\ lastCall' = NoCall

\* The application calls globalStateMemo(f) and keeps the function returned.
CreateMemoized(f) ==
  /\ Len(memo.fns) < MaxMemoized
  /\ memo' = globalStateMemo(memo, f)
  /\ UNCHANGED <<config, hooks, contextData, created, invoked, comp, react,
                 setterHeld, ev, lastCall>>

\* The application calls the h-th memoized function with the object o.
CallMemoized(h, o) ==
  /\ h \in DOMAIN memo.fns
  /\ memo.runs[memo.fns[h].factory][o] < MaxFactoryRuns
  /\ memo' = memoized(memo, h, o)
  /\ UNCHANGED <<config, hooks, contextData, created, invoked, comp, react,
                 setterHeld, ev, lastCall>>

\* An application with one provider mounted.
Next ==
  \/ \E c \in Components, s \in Slices, k \in {"get", "set"}, h \in BOOLEAN :
       Render("P1", c, s, k, h)
  \/ \E c \in Components : Effect("P1", c)
  \/ \E c \in Components : Abandon("P1", c)
  \/ \E c \in Components : Unmount("P1", c)
  \/ \E s \in Slices, arg \in SetterArgs : SetterCall("P1", s, arg)
  \/ \E s \in Slices, arg \in SetterArgs : ExternalUpdate("P1", s, arg)
  \/ ProviderEffect("P1")
  \/ DeferredRender("P1")

Spec == Init /\ [][Next]_vars

\* An application with two providers mounted by createRoot next to each
\* other, reading one slice that evicts its entry and synchronises with a
\* client-only source.
InitProviders ==
  /\ InitOf({"A"}, Providers)
  /\ config["A"] = [persistState |-> "false", onSubscribe |-> "set",
                   initialState |-> "returns"]
  /\ \A p \in Providers : react[p].mode = "client"
  /\ contextData["P1"].initialValues # contextData["P2"].initialValues

\* The component instances rendered under each provider: one, which mounts,
\* unmounts and mounts again as a reader or as a setter-only component.
TreeOf(p) == {1}

NextProviders ==
  \E p \in Providers :
    \/ \E c \in TreeOf(p), s \in Slices, k \in {"get", "set"} :
         Render(p, c, s, k, FALSE)
    \/ \E c \in TreeOf(p) : Effect(p, c)
    \/ \E c \in TreeOf(p) : Unmount(p, c)
    \/ \E s \in Slices, arg \in SetterArgs : SetterCall(p, s, arg)
    \/ ProviderEffect(p)

SpecProviders == InitProviders /\ [][NextProviders]_vars

\* An application mounted by createRoot whose components use two slices,
\* one evicted with its last listener and one persisted, both synchronised
\* with a client-only source; every setter call and external update is traced.
InitSlices ==
  /\ InitOf(Slices, {"P1"})
  /\ config["A"] = [persistState |-> "false", onSubscribe |-> "set",
                   initialState |-> "returns"]
  /\ react["P1"].mode = "client"

\* The slice a component instance uses: odd instances A, even instances B.
SliceOf(c) == IF c % 2 = 1 THEN "A" ELSE "B"

NextSlices ==
  \/ \E c \in Components, k \in {"get", "set"} :
       Render("P1", c, SliceOf(c), k, FALSE)
  \/ \E c \in Components : Effect("P1", c)
  \/ \E c \in Components : Unmount("P1", c)
  \/ \E s \in Slices, arg \in SetterArgs : TracedSetterCall("P1", s, arg)
  \/ \E s \in Slices, arg \in SetterArgs : TracedExternalUpdate("P1", s, arg)
  \/ ProviderEffect("P1")

SpecSlices == InitSlices /\ [][NextSlices]_vars

\* An application with one provider mounted and one slice, synchronised
\* with a client-only source, whose initialState throws: on every call, or
\* until the registry is hydrated.
InitThrows ==
  /\ InitWith({"A"})
  /\ config["A"].persistState = "unset"
  /\ config["A"].onSubscribe = "set"
  /\ config["A"].initialState # "returns"

NextThrows ==
  \/ \E c \in Components, s \in Slices, k \in {"get", "set"}, h \in BOOLEAN :
       Render("P1", c, s, k, h)
  \/ \E c \in Components : Effect("P1", c)
  \/ \E c \in Components : Unmount("P1", c)
  \/ \E s \in Slices, arg \in SetterArgs : SetterCall("P1", s, arg)
  \/ ProviderEffect("P1")
  \/ DeferredRender("P1")

SpecThrows == InitThrows /\ [][NextThrows]_vars

\* An application with one provider and one slice whose onSubscribe attaches
\* to a client-only source, under React's scheduling: React flushes the
\* passive effects of a commit before it renders again, so no component
\* renders between the provider's deferred render and its effect, and none
\* unmounts before the effects of the first commit have run; the mount effect
\* of a rendered component and the provider's effect are never postponed
\* forever.
InitLive ==
  /\ InitWith({"A"})
  /\ config["A"].onSubscribe = "cleanup"
  /\ config["A"].initialState = "returns"

RenderLive(p, c, s, k, hyd) ==
  react[p].pc # "deferred" /\ Render(p, c, s, k, hyd)

UnmountLive(p, c) ==
  react[p].pc # "render0" /\ Unmount(p, c)

NextLive ==
  \/ \E c \in Components, s \in Slices, k \in {"get", "set"}, h \in BOOLEAN :
       RenderLive("P1", c, s, k, h)
  \/ \E c \in Components : Effect("P1", c)
  \/ \E c \in Components : UnmountLive("P1", c)
  \/ ProviderEffect("P1")
  \/ DeferredRender("P1")

SpecLive ==
  /\ InitLive
  /\ [][NextLive]_vars
  /\ \A c \in Components : WF_vars(Effect("P1", c))
  /\ WF_vars(ProviderEffect("P1"))

\* An application mounted by hydrateRoot whose components use two slices,
\* each with an onSubscribe that attaches to a client-only source.
InitHydrate ==
  /\ InitOf(Slices, {"P1"})
  /\ config["A"].persistState \in {"true", "false"}
  /\ config["A"].onSubscribe = "cleanup"
  /\ config["A"].initialState = "returns"
  /\ react["P1"].mode = "hydrate"

NextHydrate ==
  \/ \E c \in Components, k \in {"get", "set"}, h \in BOOLEAN :
       Render("P1", c, SliceOf(c), k, h)
  \/ \E c \in Components : Effect("P1", c)
  \/ \E c \in Components : Unmount("P1", c)
  \/ ProviderEffect("P1")
  \/ DeferredRender("P1")

SpecHydrate == InitHydrate /\ [][NextHydrate]_vars

\* A module that only uses globalStateMemo: no slice has hooks and nothing
\* renders.
InitMemo ==
  /\ InitWith({})
  /\ config["A"] = [persistState |-> "unset", onSubscribe |-> "none",
                    initialState |-> "returns"]
  /\ contextData["P1"].initialValues = 0
  /\ react["P1"].mode = "server"

NextMemo ==
  \/ \E f \in Factories : CreateMemoized(f)
  \/ \E h \in 1..MaxMemoized, o \in InputObjects : CallMemoized(h, o)

SpecMemo == InitMemo /\ [][NextMemo]_vars

\* An application with one provider whose parent renders it again with
\* other initialValues, and one slice that is evicted with its last listener.
InitRerender ==
  /\ InitWith({"A"})
  /\ config["A"] = [persistState |-> "false", onSubscribe |-> "cleanup",
                    initialState |-> "returns"]
  /\ react["P1"].mode # "server"

NextRerender ==
  \/ \E c \in Components, s \in Slices, k \in {"get", "set"}, h \in BOOLEAN :
       Render("P1", c, s, k, h)
  \/ \E c \in Components : Effect("P1", c)
  \/ \E c \in Components : Unmount("P1", c)
  \/ \E s \in Slices, arg \in SetterArgs : SetterCall("P1", s, arg)
  \/ ProviderEffect("P1")
  \/ DeferredRender("P1")
  \/ \E iv \in InitialValuesSet : ProviderRerender("P1", iv)

SpecRerender == InitRerender /\ [][NextRerender]_vars

\* An application with one provider mounted on the client and one slice
\* whose onSubscribe reaches for the slice's setter hook: it forwards the
\* value of the client-only source through the callback a component obtained
\* from the setter hook.
InitReenter ==
  /\ InitWith({"A"})
  /\ config["A"].onSubscribe = "reenters"
  /\ config["A"].initialState = "returns"
  /\ react["P1"].mode # "server"

NextReenter ==
  \/ \E c \in Components, s \in Slices, k \in {"get", "set"}, h \in BOOLEAN :
       Render("P1", c, s, k, h)
  \/ \E c \in Components : Effect("P1", c)
  \/ \E c \in Components : Unmount("P1", c)
  \/ \E s \in Slices, arg \in SetterArgs : SetterCall("P1", s, arg)
  \/ ProviderEffect("P1")
  \/ DeferredRender("P1")

SpecReenter == InitReenter /\ [][NextReenter]_vars

\* An application whose components use two slices, the first with an
\* onSubscribe that throws (its client-only source is unavailable) and the
\* second synchronised with a client-only source.  Once the provider's effect
\* has thrown React takes the tree down: nothing renders or mounts any more,
\* and the mounted components unmount.
InitFailure ==
  /\ InitOf(Slices, {"P1"})
  /\ config["A"].onSubscribe = "throws"
  /\ config["A"].initialState = "returns"
  /\ react["P1"].mode # "server"

RenderStanding(p, c, s, k, hyd) ==
  react[p].pc # "failed" /\ Render(p, c, s, k, hyd)

EffectStanding(p, c) ==
  react[p].pc # "failed" /\ Effect(p, c)

NextFailure ==
  \/ \E c \in Components, k \in {"get", "set"}, h \in BOOLEAN :
       RenderStanding("P1", c, SliceOf(c), k, h)
  \/ \E c \in Components : EffectStanding("P1", c)
  \/ \E c \in Components : Unmount("P1", c)
  \/ ProviderEffect("P1")
  \/ DeferredRender("P1")

SpecFailure == InitFailure /\ [][NextFailure]_vars

\* ----------------------------------------------------------- well-formed
TypeOK ==
  /\ \A p \in Providers, s \in Slices :
       LET e == contextData[p].subContexts[s]
       IN  /\ e.id \in 0..MaxEntries
           /\ e.value \in Values
           /\ e.calls \in 0..SatCalls
           /\ e.listeners \subseteq Components
  /\ \A p \in Providers, c \in Components :
       comp[p][c].phase \in {"idle", "rendered", "mounted"}

\* The entry a mounted component's unsubscribe closure captured is the entry
\* in the registry's map, and holds the component's listener.
ClosureEntryLive ==
  \A p \in Providers, c \in Components :
    LET e == contextData[p].subContexts[comp[p][c].slice]
    IN  (comp[p][c].phase = "mounted") <=>
          (e.id # 0 /\ c \in e.listeners /\ comp[p][c].sub = e.id)

\* ================================================================ claims
Entry(p, s) == contextData[p].subContexts[s]

\* The readers and the setter-only components whose mount effect has run.
MountedOn(p, s) ==
  {c \in Components : comp[p][c].phase = "mounted" /\ comp[p][c].slice = s}
MountedReaders(p, s) ==
  {c \in MountedOn(p, s) : comp[p][c].kind = "get"}

FiredSlices == {ev.fired[i].slice : i \in DOMAIN ev.fired}
CleanedSlices == {ev.cleaned[i] : i \in DOMAIN ev.cleaned}

\* C1: within one registry every mounted reader of a slice holds the entry's
\* current value, so no two readers hold different values.
C1_ReadersHoldEntryValue ==
  \A p \in Providers, s \in Slices :
    \A c \in MountedReaders(p, s) : comp[p][c].state = Entry(p, s).value

\* C2: onSubscribe is invoked at most once per live epoch of an entry (the
\* invocations counted since the listener count last returned to zero).
C2_OnSubscribeOncePerEpoch ==
  \A p \in Providers, s \in Slices : Entry(p, s).calls <= 1

\* An epoch with one invocation in which a reader and a setter-only component
\* are mounted and the setter has just been called.
C2_Witness ==
  \E p \in Providers, s \in Slices :
    /\ Entry(p, s).calls = 1
    /\ Cardinality(Entry(p, s).listeners) >= 2
    /\ MountedReaders(p, s) # {}
    /\ MountedOn(p, s) # MountedReaders(p, s)
    /\ ev.op = "set"

\* C3: during server rendering neither onSubscribe nor a cleanup is invoked,
\* and the hydration flag stays false.
C3_ServerInvokesNothing ==
  \A p \in Providers :
    react[p].mode = "server" =>
      /\ ~contextData[p].isHydrated
      /\ ev.p = p => (ev.fired = <<>> /\ ev.cleaned = <<>>)
      /\ \A s \in Slices :
           /\ Entry(p, s).calls = 0
           /\ ~Entry(p, s).initialized
           /\ Entry(p, s).cleanup = "null"

\* A server render in which every component read a slice that has an
\* onSubscribe.
C3_Witness ==
  \E p \in Providers, s \in Slices :
    /\ react[p].mode = "server"
    /\ config[s].onSubscribe # "none"
    /\ Entry(p, s).id # 0
    /\ \A c \in Components :
         comp[p][c].phase = "rendered" /\ comp[p][c].kind = "get"

\* C4: no onSubscribe is invoked while the registry's hydration flag is
\* false, and the step that first invokes one finds no component awaiting
\* hydration or its mount effect.
C4_Step ==
  \A p \in Providers :
    /\ ~contextData'[p].isHydrated =>
         /\ (ev'.p = p => ev'.fired = <<>>)
         /\ \A s \in Slices : Entry(p, s)'.calls = 0
    /\ (~contextData[p].isHydrated /\ contextData'[p].isHydrated) =>
         /\ react[p].pending = 0
         /\ \A c \in Components : comp[p][c].phase \in {"idle", "mounted"}
C4_OnSubscribeAfterMountEffects == [][C4_Step]_vars

\* Hydration has completed with two listeners registered and onSubscribe
\* invoked for their slice.
C4_Witness ==
  \E p \in Providers, s \in Slices :
    /\ react[p].mode = "hydrate"
    /\ ev.op = "providerEffect"
    /\ s \in FiredSlices
    /\ Cardinality(MountedOn(p, s)) = NumComponents

\* C5: while a suspended subtree of the server-rendered tree has not hydrated,
\* onSubscribe has not been invoked for any slice, and the step that invokes
\* it at hydration completion finds every mount effect run.
C5_OnSubscribeWaitsForSuspended ==
  \A p \in Providers :
    /\ react[p].pending > 0 =>
         /\ ~contextData[p].isHydrated
         /\ ev.fired = <<>>
         /\ \A s \in Slices : Entry(p, s).calls = 0 /\ ~Entry(p, s).initialized
    /\ (react[p].mode = "hydrate" /\ ev.op = "providerEffect" /\ ev.fired # <<>>) =>
         /\ react[p].pending = 0
         /\ \A c \in Components : comp[p][c].phase # "rendered"

\* The shell has committed: an eagerly hydrated reader is subscribed to a
\* slice with an onSubscribe while another component is still suspended.
C5_Witness ==
  \E p \in Providers, s \in Slices :
    /\ react[p].mode = "hydrate"
    /\ react[p].pc = "committed"
    /\ react[p].pending > 0
    /\ config[s].onSubscribe # "none"
    /\ MountedReaders(p, s) # {}

\* C6: when onSubscribe, fired at hydration completion, calls setState(v)
\* synchronously, every reader mounted at that moment holds v after the step.
C6_SyncSetReachesEveryReader ==
  \A p \in Providers, s \in Slices :
    (ev.op = "providerEffect" /\ ev.p = p /\ s \in FiredSlices
       /\ config[s].onSubscribe = "set") =>
      /\ Entry(p, s).value = ExternalVal
      /\ \A c \in MountedReaders(p, s) : comp[p][c].state = ExternalVal

\* Hydration completion changed the value under two mounted readers.
C6_Witness ==
  \E p \in Providers, s \in Slices :
    /\ ev.op = "providerEffect" /\ s \in FiredSlices
    /\ config[s].onSubscribe = "set"
    /\ initialState(s, contextData[p].initialValues, FALSE) # ExternalVal
    /\ Cardinality(MountedReaders(p, s)) >= 2

\* C7: until the hydration flag becomes true, every reader rendered on the
\* server or on the hydrating client holds initialState(initialValues, false).
C7_ReadersHoldServerValue ==
  \A p \in Providers, c \in Components :
    (/\ react[p].mode \in {"server", "hydrate"}
     /\ ~contextData[p].isHydrated
     /\ comp[p][c].phase # "idle"
     /\ comp[p][c].kind = "get") =>
      comp[p][c].state =
        initialState(comp[p][c].slice, contextData[p].initialValues, FALSE)

\* C8: a cleanup is never invoked while a listener of its slice remains
\* registered, be it a reader's or a setter-only component's.
C8_NoCleanupWhileListening ==
  \A s \in CleanedSlices :
    /\ MountedOn(ev.p, s) = {}
    /\ Entry(ev.p, s).listeners = {}

\* A component has unmounted and no cleanup ran, because only setter-only
\* components remain subscribed to the initialized entry.
C8_Witness ==
  \E p \in Providers, s \in Slices :
    /\ ev.op = "unmount" /\ ev.cleaned = <<>>
    /\ Entry(p, s).initialized /\ Entry(p, s).cleanup = "fn"
    /\ MountedOn(p, s) # {}
    /\ MountedReaders(p, s) = {}

\* C9: when the last listener unsubscribes from an entry whose onSubscribe
\* fired in the current epoch and returned a cleanup, that cleanup is invoked
\* exactly once in that step, whatever persistState is.
C9_Step ==
  \A p \in Providers, s \in Slices :
    (/\ Entry(p, s).listeners # {}
     /\ Entry(p, s)'.listeners = {}
     /\ Entry(p, s).calls >= 1
     /\ config[s].onSubscribe \in {"cleanup", "set"}) =>
      (ev'.p = p /\ ev'.cleaned = <<s>>)
C9_CleanupOnLastUnsubscribe == [][C9_Step]_vars

\* The last listener of an evicted (persistState false) entry has left and
\* the cleanup ran.
C9_Witness ==
  \E p \in Providers, s \in Slices :
    /\ ev.op = "unmount" /\ ev.cleaned = <<s>>
    /\ config[s].persistState = "false"
    /\ Entry(p, s).id = 0

\* C10: with persistState true or unset, whenever a hydrated registry's entry
\* has a listener, onSubscribe has been invoked exactly once in the current
\* epoch, and the entry is still the first one created for the slice.
C10_ResubscribeInvokesAgain ==
  \A p \in Providers, s \in Slices :
    (/\ config[s].persistState # "false"
     /\ config[s].onSubscribe # "none"
     /\ contextData[p].isHydrated
     /\ Entry(p, s).listeners # {}) =>
      /\ Entry(p, s).initialized
      /\ Entry(p, s).calls = 1
      /\ Entry(p, s).id = 1
      /\ created[p][s] = 1

\* A component's subscribe effect has invoked onSubscribe on a persisted entry
\* that had been through an earlier epoch.
C10_Witness ==
  \E p \in Providers, s \in Slices :
    /\ config[s].persistState # "false"
    /\ ev.op = "effect"
    /\ \E i \in DOMAIN ev.fired : ev.fired[i].slice = s /\ ev.fired[i].again
    /\ Entry(p, s).listeners # {}

\* C11: with persistState true or unset an entry is never removed from its
\* registry, its value changes only in a step that calls updateState (a
\* setter call, an external update, or an onSubscribe that calls setState),
\* and a reader that renders reads the value the entry holds.
C11_Step ==
  \A p \in Providers, s \in Slices :
    (config[s].persistState # "false" /\ Entry(p, s).id # 0) =>
      /\ Entry(p, s)'.id = Entry(p, s).id
      /\ Entry(p, s)'.value # Entry(p, s).value =>
           /\ ev'.p = p
           /\ \/ ev'.op \in {"set", "external"}
              \/ s \in FiredSlices' /\ config[s].onSubscribe = "set"
      /\ \A c \in Components :
           (/\ comp[p][c].phase = "idle"
            /\ comp'[p][c].phase = "rendered"
            /\ comp'[p][c].kind = "get"
            /\ comp'[p][c].slice = s) =>
             comp'[p][c].state =
               IF s \in FiredSlices' /\ config[s].onSubscribe = "set"
                 THEN ExternalVal
                 ELSE Entry(p, s).value
C11_PersistedEntryKeepsValue == [][C11_Step]_vars

\* Every component has unmounted, and a reader that renders afterwards starts
\* from a value that was set, not from a result of initialState.
C11_Witness ==
  \E p \in Providers, s \in Slices, c \in Components :
    /\ config[s].persistState # "false"
    /\ config[s].onSubscribe # "set"
    /\ ev.op = "render"
    /\ comp[p][c].phase = "rendered" /\ comp[p][c].kind = "get"
    /\ comp[p][c].slice = s
    /\ Entry(p, s).listeners = {}
    /\ setterHeld[p] # {}
    /\ contextData[p].initialValues = ExternalVal
    /\ comp[p][c].state # ExternalVal

\* The part of C12 that holds: with persistState false the step in which the
\* last listener unsubscribes removes the entry, and the access that finds no entry invokes
\* initialState once more and creates an entry holding that fresh result (or
\* what onSubscribe set on it in the same access), which is what a reader
\* rendering in that access reads.
C12_Step ==
  \A p \in Providers, s \in Slices :
    config[s].persistState = "false" =>
      /\ (Entry(p, s).listeners # {} /\ Entry(p, s)'.listeners = {}) =>
           Entry(p, s)' = NoEntry
      /\ (Entry(p, s).id = 0 /\ Entry(p, s)'.id # 0) =>
           LET fresh == initialState(s, contextData[p].initialValues,
                                     contextData[p].isHydrated)
               first == IF s \in FiredSlices' /\ config[s].onSubscribe = "set"
                          THEN ExternalVal ELSE fresh
           IN  /\ invoked'[p][s] = invoked[p][s] + 1
               /\ ev'.op \in {"render", "effect"} => Entry(p, s)'.value = first
               /\ \A c \in Components :
                    (/\ comp[p][c].phase = "idle"
                     /\ comp'[p][c].phase = "rendered"
                     /\ comp'[p][c].kind = "get") =>
                      comp'[p][c].state = first
C12_EvictedEntryStartsFresh == [][C12_Step]_vars

\* After an eviction a reader has rendered from the second entry of the slice,
\* whose value is a fresh initialState result.
C12_Witness ==
  \E p \in Providers, s \in Slices, c \in Components :
    /\ config[s].persistState = "false"
    /\ config[s].onSubscribe # "set"
    /\ ev.op = "render"
    /\ created[p][s] = 2 /\ Entry(p, s).id = 2
    /\ s \in setterHeld[p]
    /\ comp[p][c].phase = "rendered" /\ comp[p][c].kind = "get"
    /\ comp[p][c].readId = 2
    /\ comp[p][c].state =
         initialState(s, contextData[p].initialValues, contextData[p].isHydrated)

\* A reader of slice s under provider p that is mounted, read its value from
\* an entry that was evicted since, and displays a value that is neither the
\* value of the slice's present entry nor a result initialState gives in this
\* registry: a value that updateState stored in the evicted entry.
ShowsEvictedUpdate(p, s, c) ==
  /\ c \in MountedReaders(p, s)
  /\ Entry(p, s).id # 0
  /\ comp[p][c].readId # Entry(p, s).id
  /\ comp[p][c].state # Entry(p, s).value
  /\ \A h \in BOOLEAN :
       comp[p][c].state # initialState(s, contextData[p].initialValues, h)

\* C12: with persistState false, when the last listener unsubscribes the
\* entry is removed from the registry, the next access creates a new entry
\* whose value is a fresh result of initialState, and values set through
\* updateState before the eviction are not visible afterwards: once the new
\* entry exists, no mounted reader displays a value that only an updateState
\* on the evicted entry produced.
C12_EvictedUpdatesNotVisible ==
  \A p \in Providers, s \in Slices :
    config[s].persistState = "false" =>
      \A c \in Components : ~ShowsEvictedUpdate(p, s, c)

\* C13: before any step nothing is initialized, and initialState is invoked
\* or an entry created only by a step in which a component under that
\* provider renders the getter hook, runs a hook's mount effect or calls the
\* setter of a slice createGlobalState was called for.
C13_Step ==
  \A p \in Providers, s \in Slices :
    /\ ev.op = "init" => (Entry(p, s).id = 0 /\ invoked[p][s] = 0)
    /\ (invoked'[p][s] # invoked[p][s] \/ Entry(p, s)'.id \notin {0, Entry(p, s).id}) =>
         /\ ev'.p = p
         /\ ev'.op \in {"render", "effect", "set"}
         /\ s \in hooks
         /\ ev'.op = "render" =>
              \E c \in Components :
                /\ comp[p][c].phase = "idle"
                /\ comp'[p][c].phase = "rendered"
                /\ comp'[p][c].kind = "get" /\ comp'[p][c].slice = s
         /\ ev'.op = "effect" =>
              \E c \in Components :
                /\ comp[p][c].phase = "rendered"
                /\ comp'[p][c].phase = "mounted" /\ comp'[p][c].slice = s
         /\ ev'.op = "set" => s \in setterHeld[p]
C13_LazyInitialization == [][C13_Step]_vars

\* A provider has mounted and completed hydration, and no slice has an entry
\* or had initialState invoked.
C13_Witness ==
  \E p \in Providers :
    /\ react[p].mode = "hydrate" /\ react[p].pc = "done"
    /\ contextData[p].isHydrated
    /\ ev.op = "providerEffect"
    /\ hooks # {}
    /\ \A s \in Slices : Entry(p, s).id = 0 /\ invoked[p][s] = 0

\* C14: initialState has been invoked exactly once per entry created, a step
\* that finds an entry in the map does not invoke it, and a reader that
\* renders while the entry exists reads that entry and its current value.
C14_Step ==
  \A p \in Providers, s \in Slices :
    /\ invoked[p][s] = created[p][s]
    /\ invoked'[p][s] = created'[p][s]
    /\ Entry(p, s).id # 0 =>
         /\ invoked'[p][s] = invoked[p][s]
         /\ \A c \in Components :
              (/\ comp[p][c].phase = "idle"
               /\ comp'[p][c].phase = "rendered"
               /\ comp'[p][c].kind = "get"
               /\ comp'[p][c].slice = s) =>
                /\ comp'[p][c].readId = Entry(p, s).id
                /\ comp'[p][c].state = Entry(p, s)'.value
C14_InitialStateOncePerEntry == [][C14_Step]_vars

\* A reader has rendered while another component is mounted on the slice: it
\* read the one entry created so far, whose value is no initialState result.
C14_Witness ==
  \E p \in Providers, s \in Slices, c \in Components :
    /\ ev.op = "render"
    /\ comp[p][c].phase = "rendered" /\ comp[p][c].kind = "get"
    /\ comp[p][c].slice = s /\ comp[p][c].readId = 1
    /\ MountedOn(p, s) # {}
    /\ created[p][s] = 1 /\ invoked[p][s] = 1
    /\ config[s].onSubscribe # "set"
    /\ contextData[p].initialValues = ExternalVal
    /\ comp[p][c].state # ExternalVal

\* C15: a step taken under one provider leaves the registry of every other
\* provider (each entry's value, listeners and initialized flag, and the
\* hydration flag) and the components under it unchanged.
C15_Step ==
  \A p \in Providers, q \in Providers :
    (p # q /\ ev'.p = p) =>
      /\ contextData'[q] = contextData[q]
      /\ comp'[q] = comp[q]
      /\ created'[q] = created[q]
      /\ invoked'[q] = invoked[q]
C15_ProvidersAreIsolated == [][C15_Step]_vars

\* The entry of the slice has just been evicted under one provider while the
\* other provider's entry of the same slice is initialized, has a listener
\* and holds a value that was set under it.
C15_Witness ==
  \E s \in Slices :
    /\ ev.op = "unmount" /\ ev.p = "P1"
    /\ created["P1"][s] >= 1 /\ Entry("P1", s).id = 0
    /\ Entry("P2", s).id # 0
    /\ Entry("P2", s).listeners # {}
    /\ Entry("P2", s).initialized
    /\ Entry("P2", s).value # ExternalVal

\* C16: a setter call or external update on one slice leaves every other
\* slice's entry (value, listeners, initialized flag, cleanup) and the state
\* of every component using another slice unchanged.
C16_Step ==
  \A p \in Providers, a \in Slices, b \in Slices :
    (a # b /\ ev'.p = p /\ lastCall'.slice = a) =>
      /\ Entry(p, b)' = Entry(p, b)
      /\ \A c \in Components :
           comp[p][c].slice = b => comp'[p][c] = comp[p][c]
C16_SlicesAreIsolated == [][C16_Step]_vars

\* The setter of one slice has just changed its value under a mounted reader
\* of it, while the other slice has an initialized entry with a cleanup and a
\* mounted reader holding another value.
C16_Witness ==
  \E p \in Providers, a \in Slices, b \in Slices, c \in Components, d \in Components :
    /\ a # b /\ lastCall.slice = a /\ ev.op = "set"
    /\ c \in MountedReaders(p, a) /\ d \in MountedReaders(p, b)
    /\ Entry(p, b).initialized /\ Entry(p, b).cleanup = "fn"
    /\ comp[p][c].state = Entry(p, a).value
    /\ comp[p][d].state = Entry(p, b).value
    /\ Entry(p, a).value # Entry(p, b).value

\* C17: a setter call or external update with a plain value x leaves x in the
\* entry; with a function it leaves the function applied to the value the
\* entry held when the call reached it (the value found in the map, or the
\* one the access had just created or onSubscribe had just set).
C17_Step ==
  \A p \in Providers, s \in Slices :
    (ev'.p = p /\ lastCall'.slice = s) =>
      LET fresh == initialState(s, contextData[p].initialValues,
                                contextData[p].isHydrated)
          before == IF s \in FiredSlices' /\ config[s].onSubscribe = "set"
                      THEN ExternalVal
                      ELSE IF Entry(p, s).id # 0 THEN Entry(p, s).value
                      ELSE fresh
      IN  Entry(p, s)'.value =
            IF lastCall'.arg.fn
              THEN (before + 1) % Cardinality(Values)
              ELSE lastCall'.arg.x
C17_UpdateStateAppliesArgument == [][C17_Step]_vars

\* A functional update was applied by a setter whose component has unmounted,
\* to an entry that no reader is mounted on: no re-render precedes the next
\* call.
C17_Witness ==
  \E p \in Providers, s \in Slices :
    /\ ev.op = "set" /\ lastCall.slice = s /\ lastCall.arg.fn
    /\ Entry(p, s).id # 0
    /\ MountedOn(p, s) = {}
    /\ Entry(p, s).value # ExternalVal
    /\ Entry(p, s).value # contextData[p].initialValues

\* C18: the entry a render or mount effect creates holds
\* initialState(initialValues, h) where h is the registry's hydration flag at
\* that moment (seen where onSubscribe does not overwrite it), and the flag
\* is false on the server and until the provider's effect has run with a
\* hydrated render.
C18_Step ==
  \A p \in Providers, s \in Slices :
    /\ (react[p].mode = "server" \/ react[p].pc \in {"render0", "committed", "deferred"}) =>
         ~contextData[p].isHydrated
    /\ react[p].pc = "done" => contextData[p].isHydrated
    /\ (/\ Entry(p, s).id = 0 /\ Entry(p, s)'.id # 0
        /\ ev'.op \in {"render", "effect"}
        /\ config[s].onSubscribe # "set") =>
         Entry(p, s)'.value =
           initialState(s, contextData[p].initialValues, contextData[p].isHydrated)
C18_InitialStateSeesHydrationFlag == [][C18_Step]_vars

\* After hydration completed on the client an evicted entry was re-created by
\* a render, and holds the client-only value, which differs from the value
\* initialState gives before hydration.
C18_Witness ==
  \E p \in Providers, s \in Slices :
    /\ react[p].mode = "hydrate" /\ contextData[p].isHydrated
    /\ config[s].persistState = "false"
    /\ config[s].onSubscribe # "set"
    /\ ev.op = "render"
    /\ created[p][s] = 2 /\ Entry(p, s).id = 2
    /\ Entry(p, s).listeners = {}
    /\ Entry(p, s).value = initialState(s, contextData[p].initialValues, TRUE)
    /\ Entry(p, s).value # initialState(s, contextData[p].initialValues, FALSE)

\* The step, taken under provider p, calls initializeSubContext for slice s:
\* in a getter hook's render, a hook's mount effect or the setter callback,
\* whether or not the call returns.
Accesses(p, s) == ev'.p = p /\ s \in ev'.accessed

\* C19: in a registry whose hydration flag is true, a step that accesses a
\* slice whose entry is missing or not initialized invokes the slice's
\* onSubscribe in that same step, in which no provider effect runs.
C19_Step ==
  \A p \in Providers, s \in Slices :
    (/\ contextData[p].isHydrated
     /\ ~Entry(p, s).initialized
     /\ config[s].onSubscribe # "none"
     /\ Accesses(p, s)) =>
      /\ ev'.fired # <<>>
      /\ \A i \in DOMAIN ev'.fired : ev'.fired[i].slice = s
      /\ Entry(p, s)'.initialized
      /\ Entry(p, s)'.calls = 1
C19_HydratedAccessTriggersAtOnce == [][C19_Step]_vars

\* After hydration completed a reader's render was the first access to the
\* slice: it created the entry and onSubscribe was invoked in that render.
C19_Witness ==
  \E p \in Providers, s \in Slices :
    /\ react[p].pc = "done" /\ contextData[p].isHydrated
    /\ ev.op = "render" /\ s \in FiredSlices
    /\ created[p][s] = 1 /\ Entry(p, s).id = 1
    /\ Entry(p, s).initialized /\ Entry(p, s).listeners = {}

\* C20: in a hydrated registry, when the render of a reader is the access
\* that invokes an onSubscribe which calls setState(v), the reader's state
\* after that render is v, the value the entry then holds.
C20_Step ==
  \A p \in Providers, s \in Slices, c \in Components :
    (/\ contextData[p].isHydrated
     /\ comp[p][c].phase = "idle" /\ comp'[p][c].phase = "rendered"
     /\ comp'[p][c].kind = "get" /\ comp'[p][c].slice = s
     /\ s \in FiredSlices'
     /\ config[s].onSubscribe = "set") =>
      /\ comp'[p][c].state = ExternalVal
      /\ Entry(p, s)'.value = ExternalVal
C20_FirstRenderYieldsSyncedValue == [][C20_Step]_vars

\* A reader's render created the entry of a slice in a hydrated registry and
\* onSubscribe replaced the initialState result before the reader read it.
C20_Witness ==
  \E p \in Providers, s \in Slices, c \in Components :
    /\ contextData[p].isHydrated
    /\ ev.op = "render" /\ s \in FiredSlices
    /\ config[s].onSubscribe = "set"
    /\ created[p][s] = 1 /\ Entry(p, s).id = 1
    /\ comp[p][c].phase = "rendered" /\ comp[p][c].kind = "get"
    /\ comp[p][c].slice = s /\ comp[p][c].readId = 1
    /\ comp[p][c].state = ExternalVal
    /\ initialState(s, contextData[p].initialValues, TRUE) # ExternalVal

\* C21: every onSubscribe invocation is handed the entry's value at that
\* moment, which in the first epoch is the initialState result.  An entry of
\* a slice with persistState false is evicted when its first epoch ends, so
\* every invocation on such a slice is handed a result of initialState.
C21_FirstEpochReceivesInitialState ==
  \A i \in DOMAIN ev.fired :
    LET s == ev.fired[i].slice
        iv == contextData[ev.p].initialValues
    IN  config[s].persistState = "false" =>
          ev.fired[i].value \in
            {initialState(s, iv, TRUE), initialState(s, iv, FALSE)}

\* C21, the part that holds: every onSubscribe invocation of a step is
\* handed the value its entry holds when it is invoked: the initialState
\* result where the step creates the entry, and the value the entry already
\* held where the step finds it in the map.
C21_Step ==
  \A i \in DOMAIN ev'.fired :
    LET p == ev'.p
        s == ev'.fired[i].slice
    IN  ev'.fired[i].value =
          IF Entry(p, s).id # 0
            THEN Entry(p, s).value
            ELSE initialState(s, contextData[p].initialValues,
                              contextData[p].isHydrated)
C21_OnSubscribeReceivesCurrentValue == [][C21_Step]_vars

\* onSubscribe was invoked again on a persisted entry (it had returned a
\* cleanup in an earlier epoch) and was handed a value that no initialState
\* call of this registry returns.
C21_Witness ==
  \E i \in DOMAIN ev.fired :
    LET s == ev.fired[i].slice
        iv == contextData[ev.p].initialValues
    IN  /\ ev.fired[i].again
        /\ config[s].persistState # "false"
        /\ ev.fired[i].value \notin {initialState(s, iv, TRUE), initialState(s, iv, FALSE)}

\* C22: an access that finds no entry and whose initialState call throws
\* propagates the exception, leaves the registry as it was (no entry added),
\* invokes no onSubscribe and lets no component render or subscribe; it is
\* one more initialState invocation, so the next access invokes it again.
\* No other step raises an exception.
C22_Step ==
  \A p \in Providers, s \in Slices :
    LET throws == /\ Entry(p, s).id = 0
                  /\ invoked'[p][s] # invoked[p][s]
                  /\ initialStateThrows(s, contextData[p].initialValues,
                                        contextData[p].isHydrated)
    IN  /\ throws =>
             /\ ev'.error
             /\ contextData'[p] = contextData[p]
             /\ created'[p] = created[p]
             /\ invoked'[p][s] = invoked[p][s] + 1
             /\ ev'.fired = <<>>
             /\ \A c \in Components :
                  comp'[p][c] = comp[p][c] \/ comp'[p][c] = IdleComp
        /\ (ev'.error /\ ev'.p = p /\ s \in hooks) => throws
C22_ThrowingInitialStateLeavesNoEntry == [][C22_Step]_vars

\* A second access of a hydrated registry has thrown: initialState was
\* invoked twice, and the slice still has no entry.
C22_Witness ==
  \E p \in Providers, s \in Slices :
    /\ ev.error /\ ev.p = p
    /\ contextData[p].isHydrated
    /\ config[s].onSubscribe = "set"
    /\ invoked[p][s] = 2 /\ created[p][s] = 0
    /\ Entry(p, s) = NoEntry

\* C23: if the provider's deferred isHydrated value eventually becomes true
\* (hydration of its tree completes), a slice that has a listener is
\* eventually initialized by an onSubscribe invocation or loses its
\* listeners; and in a hydrated registry a slice with a listener is already
\* initialized, with no further step.  The eventuality is stated for the
\* provider that is mounted and the slice that has hooks.
C23_ListenedSliceEventuallySubscribed ==
  /\ \A p \in {"P1"}, s \in {"A"} :
       <>(react[p].isHydrated) =>
         ((Entry(p, s).listeners # {}) ~>
            (Entry(p, s).initialized \/ Entry(p, s).listeners = {}))
  /\ [](\A p \in Providers, s \in Slices :
          (contextData[p].isHydrated /\ Entry(p, s).listeners # {}) =>
            Entry(p, s).initialized)

\* Hydration has completed and the provider's effect has invoked onSubscribe
\* for a slice that was accessed, and got its listener, before that.
C23_Witness ==
  \E p \in Providers, s \in Slices :
    /\ react[p].mode = "hydrate" /\ react[p].pc = "done"
    /\ ev.op = "providerEffect" /\ s \in FiredSlices
    /\ Entry(p, s).listeners # {} /\ Entry(p, s).initialized

\* The onSubscribe invocations of the last step for slice s.
FiredCount(s) == Cardinality({i \in DOMAIN ev.fired : ev.fired[i].slice = s})

\* C24: the provider's effect that runs with isHydrated true sets the
\* registry's flag and, in that one step, invokes onSubscribe exactly once
\* for every entry that is in the map and not initialized (none where the
\* slice has no onSubscribe) and marks it initialized; it invokes nothing
\* for, and leaves untouched, every other slice.
C24_Step ==
  \A p \in Providers :
    (ev'.op = "providerEffect" /\ ev'.p = p /\ react[p].isHydrated) =>
      /\ contextData'[p].isHydrated
      /\ \A s \in Slices :
           IF Entry(p, s).id # 0 /\ ~Entry(p, s).initialized
             THEN /\ Entry(p, s)'.initialized
                  /\ Entry(p, s)'.id = Entry(p, s).id
                  /\ FiredCount(s)' =
                       IF config[s].onSubscribe = "none" THEN 0 ELSE 1
             ELSE /\ FiredCount(s)' = 0
                  /\ Entry(p, s)' = Entry(p, s)
C24_CompletionTriggersEveryEntry == [][C24_Step]_vars

\* Hydration completed with the entries of two slices in the map, one of
\* them without a listener: the provider's effect invoked onSubscribe for
\* both.
C24_Witness ==
  \E p \in Providers :
    /\ react[p].mode = "hydrate" /\ react[p].pc = "done"
    /\ ev.op = "providerEffect" /\ ev.p = p
    /\ Len(ev.fired) = 2 /\ FiredSlices = Slices
    /\ \A s \in Slices : Entry(p, s).initialized
    /\ \E s \in Slices : Entry(p, s).listeners = {}

\* The result object of the first invocation of factory f on object o.
FirstResult(f, o) ==
  [val |-> FactoryValue(f, o), by |-> f, obj |-> o, run |-> 1]

\* C25: a memoized function invokes its factory at most once per input
\* object, returns on every call the one result object that invocation made,
\* and does not invoke the factory on a call repeated with the same object;
\* an object the factory has not run on causes an invocation of its own,
\* whatever other objects with equal contents are cached.
C25_Step ==
  memo'.last.op = "call" =>
    LET h == memo'.last.fn
        o == memo'.last.obj
        f == memo.fns[h].factory
    IN  /\ memo'.runs[f][o] = 1
        /\ memo'.last.result = FirstResult(f, o)
        /\ o \in memo.called[h] => ~memo'.last.ran
        /\ memo.runs[f][o] = 0 => memo'.last.ran
        /\ memo'.last.ran <=> memo'.runs # memo.runs
C25_MemoizedOncePerObject == [][C25_Step]_vars

\* A memoized function was called again with o1, without invoking its
\* factory, after it was called with o2, an object with the same contents
\* for which the factory was invoked too.
C25_Witness ==
  /\ memo.last.op = "call" /\ memo.last.obj = "o1"
  /\ ~memo.last.first /\ ~memo.last.ran
  /\ LET h == memo.last.fn
         f == memo.fns[h].factory
     IN  /\ "o2" \in memo.called[h]
         /\ Contents("o1") = Contents("o2")
         /\ memo.runs[f]["o1"] = 1 /\ memo.runs[f]["o2"] = 1

\* C26: a memoized function called for the first time with an object that
\* another memoized function of the same factory was called with returns the
\* cached result without invoking the factory.
C26_Step ==
  memo'.last.op = "call" =>
    LET h == memo'.last.fn
        o == memo'.last.obj
        f == memo.fns[h].factory
    IN  (\E h2 \in DOMAIN memo.fns :
           h2 # h /\ memo.fns[h2].factory = f /\ o \in memo.called[h2]) =>
          /\ ~memo'.last.ran
          /\ memo'.runs = memo.runs
          /\ memo'.last.result = FirstResult(f, o)
C26_SameFactorySharesCache == [][C26_Step]_vars

\* Two memoized functions of one factory exist; the one called last got the
\* cached result on its first call with the object, the other one having
\* been called with it before.
C26_Witness ==
  /\ memo.last.op = "call" /\ memo.last.first /\ ~memo.last.ran
  /\ \E h2 \in DOMAIN memo.fns :
       /\ h2 # memo.last.fn
       /\ memo.fns[h2].factory = memo.fns[memo.last.fn].factory
       /\ memo.last.obj \in memo.called[h2]

\* The WeakMaps captured by the memoized functions of the factories in F.
CachesOf(F) ==
  {memo.fns[h].contextCaches : h \in {x \in DOMAIN memo.fns : memo.fns[x].factory \in F}}

\* C27: a call of a memoized function of factory f leaves the caches and the
\* invocation counts of every other factory as they were, invokes f if f has
\* not run on the object (whichever other factory has), and returns f's own
\* result.
C27_Step ==
  memo'.last.op = "call" =>
    LET h == memo'.last.fn
        o == memo'.last.obj
        f == memo.fns[h].factory
    IN  /\ \A i \in CachesOf(Factories \ {f}) : memo'.caches[i] = memo.caches[i]
        /\ \A g \in Factories \ {f} : memo'.runs[g] = memo.runs[g]
        /\ memo.runs[f][o] = 0 => memo'.last.ran
        /\ memo'.last.result.by = f
        /\ memo'.last.result.val = FactoryValue(f, o)
C27_DifferentFactoriesSeparateCaches == [][C27_Step]_vars

\* Memoized functions of two factories were called with the same object: each
\* factory was invoked once, the last call invoked its own.
C27_Witness ==
  /\ memo.last.op = "call" /\ memo.last.ran
  /\ LET f == memo.fns[memo.last.fn].factory
         o == memo.last.obj
     IN  /\ memo.last.result.by = f
         /\ \A g \in Factories : memo.runs[g][o] = 1
         /\ \E h2 \in DOMAIN memo.fns :
              memo.fns[h2].factory # f /\ o \in memo.called[h2]

\* C28: a registry's isHydrated flag is false until a step sets it, the only
\* step that sets it is the provider's effect of a render whose deferred
\* isHydrated value is true, and no step clears it.
C28_Step ==
  \A p \in Providers :
    /\ ev.op = "init" => ~contextData[p].isHydrated
    /\ contextData[p].isHydrated => contextData'[p].isHydrated
    /\ (~contextData[p].isHydrated /\ contextData'[p].isHydrated) =>
         /\ ev'.op = "providerEffect" /\ ev'.p = p
         /\ react[p].isHydrated
         /\ react'[p].pc = "done"
C28_HydrationFlagIsMonotonic == [][C28_Step]_vars

\* The flag was set when hydration completed and is still set after the last
\* listener of the slice has unmounted and its entry is gone.
C28_Witness ==
  \E p \in Providers, s \in Slices :
    /\ react[p].mode = "hydrate" /\ react[p].pc = "done"
    /\ contextData[p].isHydrated
    /\ ev.op = "unmount" /\ ev.p = p
    /\ created[p][s] > 0 /\ Entry(p, s).id = 0
    /\ \A c \in Components : comp[p][c].phase = "idle"

\* What useInitialValues returns under provider p:
\* use(GlobalStateContext)._initialValues
useInitialValues(p) == contextData[p].initialValues

\* C29: the registry's initialValues is the prop of the provider's first
\* render and no step changes it, so useInitialValues keeps returning it; a
\* render of the provider with another prop changes no entry and no reader's
\* state; and an entry created by a render or a mount effect holds
\* initialState of the registry's initialValues, not of the latest prop.
C29_Step ==
  \A p \in Providers :
    /\ ev.op = "init" => useInitialValues(p) = react[p].prop
    /\ useInitialValues(p)' = useInitialValues(p)
    /\ (ev'.op = "providerRerender" /\ ev'.p = p) =>
         /\ react'[p].prop # react[p].prop
         /\ contextData'[p] = contextData[p]
         /\ comp'[p] = comp[p]
    /\ \A s \in Slices :
         (Entry(p, s).id = 0 /\ Entry(p, s)'.id # 0
            /\ ev'.op \in {"render", "effect"}) =>
           Entry(p, s)'.value =
             initialState(s, useInitialValues(p), contextData[p].isHydrated)
C29_InitialValuesAreFixed == [][C29_Step]_vars

\* After the provider was rendered with another prop, a reader's render
\* created an entry whose value comes from the original initialValues.
C29_Witness ==
  \E p \in Providers, s \in Slices, c \in Components :
    /\ ev.op = "render" /\ ev.p = p
    /\ react[p].prop # useInitialValues(p)
    /\ comp[p][c].phase = "rendered" /\ comp[p][c].kind = "get"
    /\ comp[p][c].slice = s /\ comp[p][c].readId = Entry(p, s).id
    /\ Entry(p, s).listeners = {}
    /\ Entry(p, s).value = initialState(s, useInitialValues(p), FALSE)
    /\ Entry(p, s).value # initialState(s, react[p].prop, FALSE)
    /\ ~contextData[p].isHydrated

\* C30: a setter call or external update with a plain value x that reaches an
\* entry without listeners leaves x in that entry; and a reader whose render
\* finds an entry in the map, and invokes no onSubscribe, starts with the
\* value the entry holds.
C30_Step ==
  \A p \in Providers, s \in Slices :
    /\ (/\ ev'.p = p /\ lastCall'.slice = s /\ ~lastCall'.arg.fn
        /\ Entry(p, s).id # 0 /\ Entry(p, s).listeners = {}) =>
         /\ Entry(p, s)'.id = Entry(p, s).id
         /\ Entry(p, s)'.listeners = {}
         /\ Entry(p, s)'.value = lastCall'.arg.x
    /\ \A c \in Components :
         (/\ comp[p][c].phase = "idle" /\ comp'[p][c].phase = "rendered"
          /\ comp'[p][c].kind = "get" /\ comp'[p][c].slice = s
          /\ Entry(p, s).id # 0 /\ s \notin FiredSlices') =>
           comp'[p][c].state = Entry(p, s).value
C30_UpdateWithoutListenersIsKept == [][C30_Step]_vars

\* A setter whose component has unmounted stored a value in a persisted
\* entry that has no listener and no mounted component: a value that is
\* neither an initialState result nor the one onSubscribe sets.
C30_Witness ==
  \E p \in Providers, s \in Slices :
    /\ ev.op = "set" /\ ev.fired = <<>>
    /\ lastCall.slice = s /\ ~lastCall.arg.fn
    /\ config[s].persistState # "false"
    /\ Entry(p, s).id # 0 /\ Entry(p, s).listeners = {}
    /\ \A c \in Components : comp[p][c].slice = s => comp[p][c].phase = "idle"
    /\ Entry(p, s).value = lastCall.arg.x
    /\ Entry(p, s).value \notin
         {ExternalVal, initialState(s, contextData[p].initialValues, TRUE),
          initialState(s, contextData[p].initialValues, FALSE)}

\* C31: a reader whose subscribe effect has run on the entry it rendered from
\* holds that entry's current value, whatever updateState was applied between
\* its render and its effect.
C31_SubscribedReaderIsCurrent ==
  \A p \in Providers, s \in Slices :
    \A c \in MountedReaders(p, s) :
      comp[p][c].readId = comp[p][c].sub =>
        comp[p][c].state = Entry(p, s).value

\* C32: a reader's listener is registered on the entry its rendered value
\* was read from; in particular no mounted reader holds the value of an
\* evicted entry while its listener is registered on a newer entry that
\* holds a different value.
C32_ReaderSubscribedWhereItRead ==
  \A p \in Providers, s \in Slices :
    \A c \in MountedReaders(p, s) :
      \/ comp[p][c].sub = comp[p][c].readId
      \/ comp[p][c].state = Entry(p, s).value

\* C33: whenever an entry has no listeners and no component is between its
\* render and its mount effect, the entry's initialized flag is false and no
\* onSubscribe invocation of the entry is left without its cleanup.
C33_NoListenersNothingAttached ==
  \A p \in Providers, s \in Slices :
    (/\ Entry(p, s).listeners = {}
     /\ \A c \in Components : comp[p][c].phase # "rendered") =>
      /\ ~Entry(p, s).initialized
      /\ Entry(p, s).calls = 0

\* C34: an initialized entry belongs to a hydrated registry; the initialized
\* flag becomes true only in a step that runs _triggerOnSubscribe on the
\* entry (an access or the provider's effect, with onSubscribe invoked where
\* one is configured), and becomes false only in the step in which the
\* entry's last listener unsubscribes.
C34_Step ==
  \A p \in Providers, s \in Slices :
    /\ Entry(p, s).initialized => contextData[p].isHydrated
    /\ Entry(p, s)'.initialized => contextData'[p].isHydrated
    /\ (~Entry(p, s).initialized /\ Entry(p, s)'.initialized) =>
         /\ ev'.p = p
         /\ ev'.op \in {"render", "effect", "set", "providerEffect"}
         /\ config[s].onSubscribe # "none" => s \in FiredSlices'
    /\ (Entry(p, s).initialized /\ ~Entry(p, s)'.initialized) =>
         /\ ev'.p = p /\ ev'.op = "unmount"
         /\ Entry(p, s).listeners # {}
         /\ Entry(p, s)'.listeners = {}
C34_InitializedOnlyWhenHydrated == [][C34_Step]_vars

\* Hydration completed with a listener on a persisted entry, and the flag the
\* completion pass had set was reset when that last listener unsubscribed.
C34_Witness ==
  \E p \in Providers, s \in Slices :
    /\ react[p].mode = "hydrate" /\ react[p].pc = "done"
    /\ ev.op = "unmount" /\ ev.cleaned = <<s>>
    /\ Entry(p, s).id # 0
    /\ ~Entry(p, s).initialized
    /\ contextData[p].isHydrated

\* C35: no onSubscribe invocation for a slice happens while another one is
\* running: a step invokes the onSubscribe of a slice at most once, none of
\* its invocations is nested in another, and it creates at most one entry for
\* the slice.
C35_Step ==
  \A s \in Slices :
    /\ \A i \in DOMAIN ev'.fired : ~ev'.fired[i].nested
    /\ Cardinality({i \in DOMAIN ev'.fired : ev'.fired[i].slice = s}) <= 1
    /\ \A p \in Providers : created'[p][s] <= created[p][s] + 1
C35_OnSubscribeNotReentered == [][C35_Step]_vars

\* C36: when an onSubscribe throws in the provider's hydration-completion
\* pass, the registry's hydration flag is true after the pass and the
\* onSubscribe of every other entry in the registry was invoked in it.
C36_FailureIsIsolated ==
  \A p \in Providers :
    (ev.op = "providerEffect" /\ ev.p = p /\ ev.error) =>
      /\ contextData[p].isHydrated
      /\ \A s \in Slices :
           (Entry(p, s).id # 0 /\ config[s].onSubscribe \notin {"none", "throws"}) =>
             s \in FiredSlices

====
